---- MODULE Spec2Model ----
(***************************************************************************)
(* Varv action-chain engine: the context actions of                        *)
(* src/actions/ContextActions.js (select, where, ...) and the trigger      *)
(* dispatch of src/unnamed/part_000 (class Trigger).                       *)
(*                                                                         *)
(* Objects live on a heap: a context's `variables` field is the address of *)
(* a variables map, so that two contexts holding the same address share    *)
(* one map, as two JavaScript references to one object do.                 *)
(*                                                                         *)
(* Options are modelled after argument substitution with an empty          *)
(* actionArguments object (no argument placeholders occur in them).        *)
(***************************************************************************)
EXTENDS Integers, Sequences, FiniteSets, TLC

\* ---------------------------------------------------------------- bounds
MaxContexts == 2      \* longest input context list
MaxCallbacks == 2     \* registrations on the event bus
MaxFirings == 2       \* calls of Trigger.trigger
MaxTasks == 2         \* calls of Trigger.runWithoutTriggers
MaxSteps == 2         \* actions in one chain
MaxMinted == 4        \* entities created in one chain

\* ---------------------------------------------------------------- values
NULL == "null"                       \* JavaScript null / undefined

\* A JavaScript value held by a variable or a property.
Undef == [k |-> "undef", s |-> "", l |-> <<>>]
Str(x) == [k |-> "str", s |-> x, l |-> <<>>]
List(q) == [k |-> "list", s |-> "", l |-> q]
Bool(b) == [k |-> "bool", s |-> IF b THEN "true" ELSE "false", l |-> <<>>]
Num(n) == [k |-> "num", s |-> ToString(n), l |-> <<>>]

VarNames == {"v", "sel", "n", "eval", "new", "storeSelection", "count", "exists"}
EmptyVariables == [n \in VarNames |-> Undef]

RECURSIVE SeqFilter(_, _)
\* Array.prototype.filter with the keep-set as predicate.
SeqFilter(q, keep) ==
    IF q = <<>> THEN <<>>
    ELSE IF Head(q) \in keep THEN <<Head(q)>> \o SeqFilter(Tail(q), keep)
         ELSE SeqFilter(Tail(q), keep)

Range(q) == {q[i] : i \in DOMAIN q}

\* ---------------------------------------------------------------- entity store
\* The uuids the store hands out for created entities, in the order of creation.
FreshIds == <<"N1", "N2", "N3", "N4", "N5", "N6">>

\* The uuids of the registry in registration order; "Z" is an id that was never
\* created (a dangling reference).
UUIDOrder == <<"A", "B">> \o FreshIds
UUIDs == {"A", "B", "Z"} \cup Range(FreshIds)

Entity(e, c, col, f, fs) ==
    [exists |-> e, concept |-> c, color |-> col, friend |-> f, friends |-> fs]

\* VarvEngine.getAllUUIDsFromType(type, true)
getAllUUIDsFromType(st, type) ==
    SeqFilter(UUIDOrder, {u \in UUIDs : st[u].exists /\ st[u].concept = type})

\* VarvEngine.lookupProperty(target, concept, property): "none" is a null lookup.
lookupProperty(st, target, property) ==
    IF target = NULL \/ ~st[target].exists THEN [kind |-> "none", value |-> <<>>]
    ELSE IF property = "friend" THEN [kind |-> "concept", value |-> <<st[target].friend>>]
    ELSE IF property = "friends" THEN [kind |-> "conceptArray", value |-> st[target].friends]
    ELSE IF property = "color" THEN [kind |-> "string", value |-> <<st[target].color>>]
    ELSE [kind |-> "none", value |-> <<>>]

\* ---------------------------------------------------------------- filters
\* The operator keys of FilterOps, in enumeration order (the first two of the
\* list documented on FilterAction).
FilterOps == <<"equals", "unequals">>

\* An operand as written in the configuration: a literal or a "$name" reference.
NoOperand == [kind |-> "none", s |-> ""]
Lit(x) == [kind |-> "lit", s |-> x]
Ref(n) == [kind |-> "var", s |-> n]

\* A filter option bag as written in the configuration.
FilterOptions(eq, uneq, prop, var, conc, ors, ands, nots) ==
    [equals |-> eq, unequals |-> uneq, property |-> prop, variable |-> var,
     calculation |-> NULL, concept |-> conc, or |-> ors, and |-> ands, not |-> nots]

RECURSIVE lookupVariablesFails(_, _)
\* Action.lookupVariables(options, context) throws: a referenced variable is
\* not bound in the context.
lookupVariablesFails(options, vm) ==
    \/ \E i \in DOMAIN FilterOps :
          options[FilterOps[i]].kind = "var" /\ vm[options[FilterOps[i]].s] = Undef
    \/ \E i \in DOMAIN options.or : lookupVariablesFails(options.or[i], vm)
    \/ \E i \in DOMAIN options.and : lookupVariablesFails(options.and[i], vm)
    \/ \E i \in DOMAIN options.not : lookupVariablesFails(options.not[i], vm)

substitute(o, vm) ==
    IF o.kind = "none" THEN Undef
    ELSE IF o.kind = "lit" THEN Str(o.s)
    ELSE vm[o.s]

RECURSIVE lookupVariables(_, _)
\* Action.lookupVariables(options, context): every "$name" is replaced by the
\* value the context binds; the stored options are not changed.
lookupVariables(options, vm) ==
    [equals |-> substitute(options.equals, vm),
     unequals |-> substitute(options.unequals, vm),
     property |-> options.property, variable |-> options.variable,
     calculation |-> options.calculation, concept |-> options.concept,
     or |-> [i \in DOMAIN options.or |-> lookupVariables(options.or[i], vm)],
     and |-> [i \in DOMAIN options.and |-> lookupVariables(options.and[i], vm)],
     not |-> [i \in DOMAIN options.not |-> lookupVariables(options.not[i], vm)]]

\* constructFilter's hasOperator(options)
hasOperator(options) == \E i \in DOMAIN FilterOps : options[FilterOps[i]] # Undef

RECURSIVE pickOperator(_, _, _)
\* The forEach over Object.keys(FilterOps) that assigns operator and value:
\* every present key overwrites the one assigned before it.
pickOperator(options, i, operator) ==
    IF i > Len(FilterOps) THEN operator
    ELSE IF options[FilterOps[i]] # Undef
         THEN pickOperator(options, i + 1, FilterOps[i])
         ELSE pickOperator(options, i + 1, operator)

FilterNode(t, key, op, val, ch) ==
    [type |-> t, key |-> key, op |-> op, value |-> val, children |-> ch]
NullFilter == FilterNode("null", NULL, NULL, Undef, <<>>)

RECURSIVE constructFilter(_)
\* FilterAction.constructFilter(options), on options whose references are
\* already substituted.
constructFilter(options) ==
    IF hasOperator(options)
    THEN LET operator == pickOperator(options, 1, NULL)
             value == options[operator]
         IN IF options.calculation # NULL
            THEN FilterNode("calculation", options.calculation, operator, value, <<>>)
            ELSE IF options.property # NULL
            THEN FilterNode("property", options.property, operator, value, <<>>)
            ELSE IF options.variable # NULL
            THEN FilterNode("variable", options.variable, operator, value, <<>>)
            ELSE FilterNode("value", NULL, operator, value, <<>>)
    ELSE IF options.concept # NULL
         THEN FilterNode("concept", options.concept, NULL, Undef, <<>>)
         ELSE IF options.or # <<>>
         THEN FilterNode("or", NULL, NULL, Undef,
                         [i \in DOMAIN options.or |-> constructFilter(options.or[i])])
         ELSE IF options.and # <<>>
         THEN FilterNode("and", NULL, NULL, Undef,
                         [i \in DOMAIN options.and |-> constructFilter(options.and[i])])
         ELSE IF options.not # <<>>
         THEN FilterNode("not", NULL, NULL, Undef,
                         <<constructFilter(options.not[1])>>)
         ELSE NullFilter

\* FilterOps[op](a, b)
compare(op, a, b) == IF op = "equals" THEN a = b ELSE a # b

Tri(b) == IF b THEN "T" ELSE "F"

RECURSIVE filterEval(_, _, _, _)
\* filter.filter(context, concept): "T" / "F", or "X" when the evaluation
\* throws (a missing entity, property or variable, or a null filter).
filterEval(node, target, vm, st) ==
    IF node.type = "null" THEN "X"
    ELSE IF node.type = "property"
    THEN IF target = NULL \/ ~st[target].exists \/ node.key # "color" THEN "X"
         ELSE Tri(compare(node.op, Str(st[target].color), node.value))
    ELSE IF node.type = "variable"
    THEN IF node.key \notin VarNames THEN "X"
         ELSE IF vm[node.key] = Undef THEN "X"
         ELSE Tri(compare(node.op, vm[node.key], node.value))
    ELSE IF node.type = "value"
    THEN Tri(compare(node.op, Str(target), node.value))
    ELSE IF node.type = "concept"
    THEN IF target = NULL \/ ~st[target].exists THEN "X"
         ELSE Tri(st[target].concept = node.key)
    ELSE IF node.type = "not"
    THEN LET r == filterEval(node.children[1], target, vm, st)
         IN IF r = "X" THEN "X" ELSE Tri(r = "F")
    ELSE IF node.type = "and"
    THEN LET rs == [i \in DOMAIN node.children |->
                        filterEval(node.children[i], target, vm, st)]
             stop == {i \in DOMAIN rs : rs[i] # "T"}
         IN IF stop = {} THEN "T"
            ELSE rs[CHOOSE i \in stop : \A j \in stop : i <= j]
    ELSE IF node.type = "or"
    THEN LET rs == [i \in DOMAIN node.children |->
                        filterEval(node.children[i], target, vm, st)]
             stop == {i \in DOMAIN rs : rs[i] # "F"}
         IN IF stop = {} THEN "F"
            ELSE rs[CHOOSE i \in stop : \A j \in stop : i <= j]
    ELSE "X"


\* ---------------------------------------------------------------- contexts
Context(t, lt, addr) == [target |-> t, lastTarget |-> lt, variables |-> addr]

\* Action.setVariable(context, name, value): context.variables[name] = value,
\* written in place into the map the context refers to.
setVariable(h, context, name, value) ==
    [h EXCEPT ![context.variables] = [@ EXCEPT ![name] = value]]

\* Action.getCommonVariables(contexts): a fresh map holding the variables that
\* every context binds to the same value.
getCommonVariables(h, ctxs) ==
    [n \in VarNames |->
        IF ctxs # <<>> /\ \A i \in DOMAIN ctxs :
               h[ctxs[i].variables][n] = h[ctxs[1].variables][n]
        THEN h[ctxs[1].variables][n]
        ELSE Undef]

\* ---------------------------------------------------------------- select
NoTarget == [k |-> "null", ids |-> <<>>]
OneTarget(id) == [k |-> "one", ids |-> <<id>>]
ManyTargets(ids) == [k |-> "many", ids |-> ids]

SelectOptions(c, t, p, as, fe, sie) ==
    [concept |-> c, target |-> t, property |-> p, as |-> as,
     forEach |-> fe, stopIfEmpty |-> sie]

\* Variant: target is looked at before concept.
seedUUIDsTargetFirst(context, options, st) ==
    IF options.target.k # "null"
    THEN [threw |-> FALSE, ids |-> options.target.ids]
    ELSE IF options.concept # NULL
    THEN [threw |-> FALSE, ids |-> getAllUUIDsFromType(st, options.concept)]
    ELSE [threw |-> TRUE, ids |-> <<>>]

\* doSelect, first part: the seed ids (conceptUUIDs), or a throw.
seedUUIDs(context, options, st) ==
    IF options.concept # NULL
    THEN [threw |-> FALSE, ids |-> getAllUUIDsFromType(st, options.concept)]
    ELSE IF options.target.k # "null"
    THEN [threw |-> FALSE, ids |-> options.target.ids]
    ELSE IF options.property # NULL
    THEN LET lookup == lookupProperty(st, context.target, options.property)
         IN IF lookup.kind = "none" THEN [threw |-> TRUE, ids |-> <<>>]
            ELSE IF lookup.kind \in {"concept", "conceptArray"}
            THEN [threw |-> FALSE, ids |-> lookup.value]
            ELSE [threw |-> TRUE, ids |-> <<>>]
    ELSE [threw |-> TRUE, ids |-> <<>>]

\* doSelect, the body of the loop over the seeds for one uuid: "T" the uuid is
\* pushed, "F" it is not, "X" the statement throws out of doSelect (there is
\* no try around it). clonedVariables has the content of context.variables.
whereVerdict(wherePart, uuid, vm, st) ==
    IF wherePart = <<>> THEN "T"
    ELSE IF lookupVariablesFails(wherePart[1], vm) THEN "X"
    ELSE filterEval(constructFilter(lookupVariables(wherePart[1], vm)), uuid, vm, st)

\* Variant: options.as is bound to the seed list.
asValueSeeds(conceptUUIDs, filteredUUIDs) == List(conceptUUIDs)

\* The value doSelect binds to options.as.
asValue(conceptUUIDs, filteredUUIDs) == List(filteredUUIDs)

\* Variant: the target is not replaced.
selectedContextKeepsTarget(context, uuid) ==
    Context(context.target, context.lastTarget, context.variables)

\* The context doSelect makes for an accepted uuid:
\* Object.assign({}, context, {target: uuid}).
selectedContext(context, uuid) ==
    Context(uuid, context.lastTarget, context.variables)

\* What the model keeps of one run of doSelect: the context it ran against,
\* the seeds, the accepted ids, and where its contexts start in the result.
SelectRun(context, vm, seed, accepted, threw) ==
    [context |-> context, vars |-> vm, seeds |-> seed.ids, seedThrew |-> seed.threw,
     accepted |-> accepted, threw |-> threw, first |-> 0]

\* doSelect, last part: options.as is bound, the accepted uuids become contexts.
doSelectFiltered(context, options, h, seed, filteredUUIDs) ==
    [threw |-> FALSE,
     out |-> [i \in DOMAIN filteredUUIDs |-> selectedContext(context, filteredUUIDs[i])],
     heap |-> IF options.as # NULL
              THEN setVariable(h, context, options.as,
                               asValue(seed.ids, filteredUUIDs))
              ELSE h,
     run |-> SelectRun(context, h[context.variables], seed, filteredUUIDs, FALSE)]

\* doSelect, middle part: the loop over the seeds.
doSelectSeeded(context, options, wherePart, h, st, seed) ==
    IF \/ seed.threw
       \/ \E u \in Range(seed.ids) :
             whereVerdict(wherePart, u, h[context.variables], st) = "X"
    THEN [threw |-> TRUE, out |-> <<>>, heap |-> h,
          run |-> SelectRun(context, h[context.variables], seed, <<>>, TRUE)]
    ELSE doSelectFiltered(context, options, h, seed,
             SeqFilter(seed.ids,
                 {u \in Range(seed.ids) :
                     whereVerdict(wherePart, u, h[context.variables], st) = "T"}))

\* doSelect(context, options, originalOptions) on heap h.
doSelect(context, options, wherePart, h, st) ==
    doSelectSeeded(context, options, wherePart, h, st,
                   seedUUIDs(context, options, st))

RECURSIVE selectForEach(_, _, _, _, _, _, _)
\* forEachContext, after the callback returned r for the first context of
\* ctxs: an array result is flattened into the results, a throw ends the loop.
selectForEachStep(r, ctxs, options, wherePart, st, out, runs) ==
    IF r.threw
    THEN [threw |-> TRUE, out |-> out, heap |-> r.heap,
          runs |-> Append(runs, [r.run EXCEPT !.first = Len(out) + 1])]
    ELSE selectForEach(Tail(ctxs), options, wherePart, r.heap, st, out \o r.out,
                       Append(runs, [r.run EXCEPT !.first = Len(out) + 1]))

\* this.forEachContext(contexts, actionArguments, doSelect): one run per input
\* context, in input order, each on the context object itself.
selectForEach(ctxs, options, wherePart, h, st, out, runs) ==
    IF ctxs = <<>> THEN [threw |-> FALSE, out |-> out, heap |-> h, runs |-> runs]
    ELSE selectForEachStep(doSelect(Head(ctxs), options, wherePart, h, st),
                           ctxs, options, wherePart, st, out, runs)

\* SelectAction.apply, bulk mode: one run against a fresh context
\* {target: null, variables: commonVariables}.
selectBulkRun(commonVariables, options, wherePart, h, st) ==
    doSelect(Context(NULL, NULL, Len(h) + 1), options, wherePart,
             Append(h, commonVariables), st)

bulkResult(r) ==
    [threw |-> r.threw, out |-> r.out, heap |-> r.heap,
     runs |-> <<[r.run EXCEPT !.first = 1]>>]

\* Variant: bulk mode runs the selection for every input context.
selectBulkPerContext(ctxs, options, wherePart, h, st) ==
    selectForEach(ctxs, options, wherePart, h, st, <<>>, <<>>)

selectBulk(ctxs, options, wherePart, h, st) ==
    bulkResult(selectBulkRun(getCommonVariables(h, ctxs), options, wherePart, h, st))

\* Variant: an empty result stops the chain whatever stopIfEmpty says.
stopCheckAlways(stopIfEmpty, result) ==
    IF Len(result) = 0 THEN "StopError" ELSE "ok"

\* The check of stopIfEmpty that ends SelectAction.apply and FilterAction.apply.
stopCheck(stopIfEmpty, result) ==
    IF stopIfEmpty /\ Len(result) = 0 THEN "StopError" ELSE "ok"

\* How apply ends: "Error" on a throw, else per the check of stopIfEmpty.
applyResult(r, stopIfEmpty) ==
    [status |-> IF r.threw THEN "Error" ELSE stopCheck(stopIfEmpty, r.out),
     out |-> r.out, heap |-> r.heap, runs |-> r.runs]

\* SelectAction.apply(contexts, actionArguments)
selectApply(ctxs, options, wherePart, h, st) ==
    applyResult(IF options.forEach
                THEN selectForEach(ctxs, options, wherePart, h, st, <<>>, <<>>)
                ELSE selectBulk(ctxs, options, wherePart, h, st),
                options.stopIfEmpty)

\* ---------------------------------------------------------------- where
WhereOptions(f, sie) == [filter |-> f, stopIfEmpty |-> sie]

\* Variant: the catch lets the context through.
whereKeepsOnThrow(options, context, h, st) ==
    filterEval(constructFilter(lookupVariables(options.filter, h[context.variables])),
               context.target, h[context.variables], st) # "F"

\* The callback FilterAction.apply hands to forEachContext: TRUE when the
\* context is returned, FALSE when null is returned; a throw of constructFilter
\* or of filter.filter (also on a null filter) is caught and gives null.
whereKeeps(options, context, h, st) ==
    filterEval(constructFilter(lookupVariables(options.filter, h[context.variables])),
               context.target, h[context.variables], st) = "T"

RECURSIVE whereForEach(_, _, _, _, _)
\* this.forEachContext(contexts, actionArguments, callback) of FilterAction:
\* the options are variable-substituted per context, non-null results are
\* collected in input order.
whereForEach(ctxs, options, h, st, out) ==
    IF ctxs = <<>> THEN [threw |-> FALSE, out |-> out, heap |-> h, runs |-> <<>>]
    ELSE IF lookupVariablesFails(options.filter, h[Head(ctxs).variables])
    THEN [threw |-> TRUE, out |-> out, heap |-> h, runs |-> <<>>]
    ELSE whereForEach(Tail(ctxs), options, h, st,
                      IF whereKeeps(options, Head(ctxs), h, st)
                      THEN Append(out, Head(ctxs)) ELSE out)

\* FilterAction.apply(contexts, actionArguments)
whereApply(ctxs, options, h, st) ==
    applyResult(whereForEach(ctxs, options, h, st, <<>>), options.stopIfEmpty)

\* ---------------------------------------------------------------- limit
NoCount == -1                        \* options.count == null
LimitOptions(c, l) == [count |-> c, last |-> l]

\* Variant: the last count contexts are taken one position late.
limitVerdictLate(options, index, length) ==
    IF options.count = NoCount THEN "X"
    ELSE IF options.last
         THEN Tri(index > length - options.count)
         ELSE Tri(index <= options.count - 1)

\* The callback LimitAction.apply hands to forEachContext, for the context at
\* (0-based) index of a list of contexts.length = length: "T" the context is
\* returned, "F" nothing is returned, "X" the callback throws.
limitVerdict(options, index, length) ==
    IF options.count = NoCount THEN "X"
    ELSE IF options.last
         THEN Tri(index >= length - options.count)
         ELSE Tri(index <= options.count - 1)

RECURSIVE limitForEach(_, _, _, _, _)
\* this.forEachContext(contexts, actionArguments, callback) of LimitAction:
\* the callback gets the index of the context in the input list; ctxs are the
\* contexts from that index on.
limitForEach(ctxs, options, index, length, out) ==
    IF ctxs = <<>> THEN [threw |-> FALSE, out |-> out]
    ELSE IF limitVerdict(options, index, length) = "X"
    THEN [threw |-> TRUE, out |-> out]
    ELSE limitForEach(Tail(ctxs), options, index + 1, length,
                      IF limitVerdict(options, index, length) = "T"
                      THEN Append(out, Head(ctxs)) ELSE out)

limitResult(r, h) ==
    [status |-> IF r.threw THEN "Error" ELSE "ok", out |-> r.out, heap |-> h,
     runs |-> <<>>]

\* LimitAction.apply(contexts, actionArguments)
limitApply(ctxs, options, h) ==
    limitResult(limitForEach(ctxs, options, 0, Len(ctxs), <<>>), h)

\* ---------------------------------------------------------------- eval
\* An operand of the stored options, read without variable substitution: a
\* "$name" reference is the string it is written as.
rawOperand(o) ==
    IF o.kind = "none" THEN Undef
    ELSE IF o.kind = "lit" THEN Str(o.s)
    ELSE Str("$" \o o.s)

RECURSIVE rawOptions(_)
\* this.options as EvalAction.apply hands them to constructFilter.
rawOptions(options) ==
    [equals |-> rawOperand(options.equals),
     unequals |-> rawOperand(options.unequals),
     property |-> options.property, variable |-> options.variable,
     calculation |-> options.calculation, concept |-> options.concept,
     or |-> [i \in DOMAIN options.or |-> rawOptions(options.or[i])],
     and |-> [i \in DOMAIN options.and |-> rawOptions(options.and[i])],
     not |-> [i \in DOMAIN options.not |-> rawOptions(options.not[i])]]

\* Action.defaultVariableName(action): a name derived from the action's name.
defaultVariableName(name) == name

\* The options of an eval action: the filter keys and as.
EvalOptions(f, as) == [filter |-> f, as |-> as]

\* The variable an action writes: options.as, else the default name.
variableNameOf(name, as) == IF as # NULL THEN as ELSE defaultVariableName(name)

\* EvalAction.apply, the callback up to shouldFilter: "T" / "F", or "X" when
\* filter.filter throws (also on a null filter); nothing catches it.
evalVerdict(options, context, h, st) ==
    filterEval(constructFilter(rawOptions(options.filter)),
               context.target, h[context.variables], st)

RECURSIVE evalForEach(_, _, _, _, _)
\* this.forEachContext(contexts, actionArguments, callback) of EvalAction:
\* the callback writes the verdict into the variable and returns the context.
evalForEach(ctxs, options, h, st, out) ==
    IF ctxs = <<>> THEN [threw |-> FALSE, out |-> out, heap |-> h]
    ELSE IF \/ lookupVariablesFails(options.filter, h[Head(ctxs).variables])
            \/ evalVerdict(options, Head(ctxs), h, st) = "X"
    THEN [threw |-> TRUE, out |-> out, heap |-> h]
    ELSE evalForEach(Tail(ctxs), options,
                     setVariable(h, Head(ctxs), variableNameOf("eval", options.as),
                                 Bool(evalVerdict(options, Head(ctxs), h, st) = "T")),
                     st, Append(out, Head(ctxs)))

evalResult(r) ==
    [status |-> IF r.threw THEN "Error" ELSE "ok", out |-> r.out, heap |-> r.heap,
     runs |-> <<>>]

\* EvalAction.apply(contexts, actionArguments)
evalApply(ctxs, options, h, st) == evalResult(evalForEach(ctxs, options, h, st, <<>>))

\* ---------------------------------------------------------------- storeSelection
\* The arrays uuids.slice() makes, one per context of the list; a list value
\* carries the name of its array in the field s.
ArrayNames == <<"a1", "a2", "a3", "a4", "a5", "a6", "a7", "a8">>
Slice(q, i) == [k |-> "list", s |-> ArrayNames[i], l |-> q]

StoreSelectionOptions(as) == [as |-> as]

\* Variant: the targets are collected without the test for null.
selectionUUIDsAll(ctxs) == [i \in DOMAIN ctxs |-> ctxs[i].target]

\* StoreSelectionAction.apply: contexts.filter(target != null).map(target)
selectionUUIDs(ctxs) ==
    SeqFilter([i \in DOMAIN ctxs |-> ctxs[i].target],
              {ctxs[i].target : i \in DOMAIN ctxs} \ {NULL})

RECURSIVE storeSelectionForEach(_, _, _, _, _)
\* contexts.forEach(context => Action.setVariable(context, variableName,
\* uuids.slice())), from the context at position i on.
storeSelectionForEach(ctxs, i, name, uuids, h) ==
    IF i > Len(ctxs) THEN h
    ELSE storeSelectionForEach(ctxs, i + 1, name, uuids,
                               setVariable(h, ctxs[i], name, Slice(uuids, i)))

\* StoreSelectionAction.apply(contexts, actionArguments)
storeSelectionApply(ctxs, options, h, st, n) ==
    [status |-> "ok", out |-> ctxs,
     heap |-> storeSelectionForEach(ctxs, 1,
                  variableNameOf("storeSelection", options.as),
                  selectionUUIDs(ctxs), h),
     store |-> st, ops |-> <<>>, minted |-> n]

\* ---------------------------------------------------------------- new
NewOptions(c, as, sel, fe) ==
    [concept |-> c, with |-> "green", as |-> as, select |-> sel, forEach |-> fe]

\* concept.create(null, options.with) as the (n+1)-th creation of the store.
create(st, n, concept, color) ==
    [st EXCEPT ![FreshIds[n + 1]] = Entity(TRUE, concept, color, NULL, <<>>)]

\* doNew: the context it returns, after `if(options.select) context.target = uuid`.
doNewContext(context, options, uuid) ==
    Context(IF options.select THEN uuid ELSE context.target,
            context.lastTarget, context.variables)

\* doNew: Action.setVariable(context, variableName, uuid)
doNewHeap(h, context, options, uuid) ==
    setVariable(h, context, variableNameOf("new", options.as), Str(uuid))

RECURSIVE newForEach(_, _, _, _, _, _, _)
\* doNew for each context of ctxs in turn, n entities having been created.
newForEach(ctxs, options, h, st, n, out, ops) ==
    IF ctxs = <<>>
    THEN [status |-> "ok", out |-> out, heap |-> h, store |-> st, ops |-> ops,
          minted |-> n]
    ELSE newForEach(Tail(ctxs), options,
                    doNewHeap(h, Head(ctxs), options, FreshIds[n + 1]),
                    create(st, n, options.concept, options.with), n + 1,
                    Append(out, doNewContext(Head(ctxs), options, FreshIds[n + 1])),
                    Append(ops, [op |-> "create", id |-> FreshIds[n + 1]]))

\* NewAction.apply, bulk mode: one doNew on {variables: commonVariables}, a
\* context without target.
newBulk(ctxs, options, h, st, n) ==
    newForEach(<<Context(NULL, NULL, Len(h) + 1)>>, options,
               Append(h, getCommonVariables(h, ctxs)), st, n, <<>>, <<>>)

\* NewAction.apply(contexts, actionArguments)
newApply(ctxs, options, h, st, n) ==
    IF options.forEach THEN newForEach(ctxs, options, h, st, n, <<>>, <<>>)
    ELSE newBulk(ctxs, options, h, st, n)

\* ---------------------------------------------------------------- remove
RemoveOptions(t) == [target |-> t]

\* Variant: options.target is not looked at.
removeUuidsOfContext(context, value) ==
    IF context.target = NULL THEN [threw |-> TRUE, ids |-> <<>>]
    ELSE [threw |-> FALSE, ids |-> <<context.target>>]

\* Variant: a list of uuids is taken from its end.
removeUuidsBackwards(context, value) ==
    IF value = Undef
    THEN IF context.target = NULL THEN [threw |-> TRUE, ids |-> <<>>]
         ELSE [threw |-> FALSE, ids |-> <<context.target>>]
    ELSE IF value.k = "list"
    THEN [threw |-> FALSE,
          ids |-> [i \in DOMAIN value.l |-> value.l[Len(value.l) + 1 - i]]]
    ELSE [threw |-> FALSE, ids |-> <<value.s>>]

\* RemoveAction.apply, the callback up to the loop: the uuids to remove, or a
\* throw; value is options.target after substitution.
removeUuids(context, value) ==
    IF value = Undef
    THEN IF context.target = NULL THEN [threw |-> TRUE, ids |-> <<>>]
         ELSE [threw |-> FALSE, ids |-> <<context.target>>]
    ELSE IF value.k = "list" THEN [threw |-> FALSE, ids |-> value.l]
    ELSE [threw |-> FALSE, ids |-> <<value.s>>]

RECURSIVE deleteAll(_, _, _, _)
\* for(let uuid of removeUuids) await getConceptFromUUID(uuid).delete(uuid);
\* for a uuid the store does not hold the call throws (strict) or does nothing;
\* the log keeps such a request as a "miss".
deleteAll(st, ids, strict, ops) ==
    IF ids = <<>> THEN [threw |-> FALSE, store |-> st, ops |-> ops]
    ELSE IF ~st[Head(ids)].exists
    THEN IF strict
         THEN [threw |-> TRUE, store |-> st,
               ops |-> Append(ops, [op |-> "miss", id |-> Head(ids)])]
         ELSE deleteAll(st, Tail(ids), strict,
                        Append(ops, [op |-> "miss", id |-> Head(ids)]))
    ELSE deleteAll([st EXCEPT ![Head(ids)].exists = FALSE], Tail(ids), strict,
                   Append(ops, [op |-> "delete", id |-> Head(ids)]))

\* Variant: a throw restores the store the action started with.
removeThrownRollsBack(st0, st, ops) == [store |-> st0, ops |-> <<>>]

\* The store a throw inside the callback leaves: nothing is undone.
removeThrown(st0, st, ops) == [store |-> st, ops |-> ops]

\* Variant: the callback returns its context.
removeReturnContext(context) == <<context>>

\* The callback's `return null`: nothing is collected for the context.
removeReturn(context) == <<>>

removeFailed(t, h, out) ==
    [status |-> "Error", out |-> out, heap |-> h, store |-> t.store, ops |-> t.ops]

RECURSIVE removeForEach(_, _, _, _, _, _, _, _)
\* forEachContext, after the loop of deletions for the first context of ctxs
\* gave d.
removeStep(d, ctxs, options, h, st0, strict, out) ==
    IF d.threw THEN removeFailed(removeThrown(st0, d.store, d.ops), h, out)
    ELSE removeForEach(Tail(ctxs), options, h, st0, d.store, strict,
                       out \o removeReturn(Head(ctxs)), d.ops)

\* this.forEachContext(contexts, actionArguments, callback) of RemoveAction;
\* st0 is the store apply started with.
removeForEach(ctxs, options, h, st0, st, strict, out, ops) ==
    IF ctxs = <<>>
    THEN [status |-> "ok", out |-> out, heap |-> h, store |-> st, ops |-> ops]
    ELSE IF \/ /\ options.target.kind = "var"
               /\ h[Head(ctxs).variables][options.target.s] = Undef
            \/ removeUuids(Head(ctxs),
                           substitute(options.target, h[Head(ctxs).variables])).threw
    THEN removeFailed(removeThrown(st0, st, ops), h, out)
    ELSE removeStep(deleteAll(st,
                        removeUuids(Head(ctxs),
                            substitute(options.target, h[Head(ctxs).variables])).ids,
                        strict, ops),
                    ctxs, options, h, st0, strict, out)

withMinted(r, n) ==
    [status |-> r.status, out |-> r.out, heap |-> r.heap, store |-> r.store,
     ops |-> r.ops, minted |-> n]

\* RemoveAction.apply(contexts, actionArguments)
removeApply(ctxs, options, h, st, n, strict) ==
    withMinted(removeForEach(ctxs, options, h, st, st, strict, <<>>, <<>>), n)

\* ---------------------------------------------------------------- triggers
VarvEventPrefix == "VarvEvent."

\* Action.clone(evt.detail): a deep copy of a context list; every copy gets a
\* variables map of its own.
clone(h, ctxs) ==
    [heap |-> h \o [i \in DOMAIN ctxs |-> h[ctxs[i].variables]],
     ctxs |-> [i \in DOMAIN ctxs |->
                  Context(ctxs[i].target, ctxs[i].lastTarget, Len(h) + i)]]

\* Variant: the callback is registered under the bare trigger name.
registeredEventNameBare(triggerName) == triggerName

\* Trigger.registerTriggerEvent(triggerName, callback): the bus name the
\* callback is registered under.
registeredEventName(triggerName) == VarvEventPrefix \o triggerName

\* Trigger.trigger(triggerName, context): the bus name the event is sent under.
triggeredEventName(triggerName) == VarvEventPrefix \o triggerName

\* Variant: every call goes on to the event bus.
passesGateAlways(enabled) == TRUE

\* Trigger.trigger, the test of triggeringEnabled: TRUE when the call goes on
\* to the event bus.
passesGate(enabled) == enabled

\* EventSystem: the indices of the callbacks registered under eventName, in
\* registration order.
callbacksFor(reg, eventName) ==
    SeqFilter([i \in DOMAIN reg |-> i], {i \in DOMAIN reg : reg[i].event = eventName})

\* ---------------------------------------------------------------- count, exists
\* CountAction.apply and ExistsAction.apply are the same text but for the line
\* that computes the value from selectResult; kind is "count" or "exists",
\* which is also the name of the action and so the default variable name.

\* CountAction.apply: let count = selectResult.length
count(selectResult) == Num(Len(selectResult))

\* Variant: any result exists.
existsAlways(selectResult) == Bool(TRUE)

\* ExistsAction.apply: let exists = selectResult.length > 0
exists(selectResult) == Bool(Len(selectResult) > 0)

countValue(kind, selectResult) ==
    IF kind = "exists" THEN exists(selectResult) ELSE count(selectResult)

\* Variant: the value is set on the clone the select ran on.
countTargetClone(context, clonedContext) == clonedContext

\* The first argument of Action.setVariable(context, variableName, count) in
\* the forEach callback: the input context, not its clone.
countTarget(context, clonedContext) == context

\* The forEach callback after super.apply([clonedContext]) ended as r: a throw
\* of the select leaves the callback, else the value is written.
countWrite(kind, options, context, clonedContext, r) ==
    [status |-> r.status,
     heap |-> IF r.status = "ok"
              THEN setVariable(r.heap, countTarget(context, clonedContext),
                               variableNameOf(kind, options.as),
                               countValue(kind, r.out))
              ELSE r.heap]

\* The forEach callback on one context; cl is Action.cloneContext(context).
countOne(kind, context, options, wherePart, st, cl) ==
    countWrite(kind, options, context, cl.ctxs[1],
               selectApply(cl.ctxs, options, wherePart, cl.heap, st))

RECURSIVE countForEach(_, _, _, _, _, _, _)
countForEachStep(kind, ctxs, options, wherePart, st, out, r) ==
    IF r.status # "ok"
    THEN [status |-> r.status, out |-> out, heap |-> r.heap, runs |-> <<>>]
    ELSE countForEach(kind, Tail(ctxs), options, wherePart, r.heap, st,
                      Append(out, Head(ctxs)))

\* this.forEachContext(contexts, actionArguments, callback), forEach mode: the
\* callback returns the input context.
countForEach(kind, ctxs, options, wherePart, h, st, out) ==
    IF ctxs = <<>> THEN [status |-> "ok", out |-> out, heap |-> h, runs |-> <<>>]
    ELSE countForEachStep(kind, ctxs, options, wherePart, st, out,
             countOne(kind, Head(ctxs), options, wherePart, st,
                      clone(h, <<Head(ctxs)>>)))

RECURSIVE countSetAll(_, _, _, _)
\* The forEachContext that ends bulk mode: the one value on every input context.
countSetAll(h, ctxs, variableName, value) ==
    IF ctxs = <<>> THEN h
    ELSE countSetAll(setVariable(h, Head(ctxs), variableName, value),
                     Tail(ctxs), variableName, value)

\* Bulk mode after super.apply(clonedContexts) ended as r.
countBulkEnd(kind, ctxs, options, r) ==
    IF r.status # "ok"
    THEN [status |-> r.status, out |-> <<>>, heap |-> r.heap, runs |-> <<>>]
    ELSE [status |-> "ok", out |-> ctxs,
          heap |-> countSetAll(r.heap, ctxs, variableNameOf(kind, options.as),
                               countValue(kind, r.out)),
          runs |-> <<>>]

\* Bulk mode; cl is contexts.map(Action.cloneContext).
countBulk(kind, ctxs, options, wherePart, st, cl) ==
    countBulkEnd(kind, ctxs, options,
                 selectApply(cl.ctxs, options, wherePart, cl.heap, st))

\* CountAction.apply(contexts, actionArguments) for kind "count",
\* ExistsAction.apply(contexts, actionArguments) for kind "exists".
countApply(kind, ctxs, options, wherePart, h, st) ==
    IF options.forEach
    THEN countForEach(kind, ctxs, options, wherePart, h, st, <<>>)
    ELSE countBulk(kind, ctxs, options, wherePart, st, clone(h, ctxs))

\* ---------------------------------------------------------------- sort
\* typeof of a variable value; a pending Promise is an object.
typeof(value) ==
    IF value.k = "str" THEN "string"
    ELSE IF value.k = "num" THEN "number"
    ELSE IF value.k = "bool" THEN "boolean"
    ELSE IF value.k = "undef" THEN "undefined"
    ELSE "object"

\* String.prototype.localeCompare on the strings the inputs hold: negative,
\* zero or positive.
localeCompare(a, b) ==
    LET order == <<"blue", "green", "red">>
        rank(x) == CHOOSE i \in DOMAIN order : order[i] = x
    IN rank(a) - rank(b)

\* The comparator handed to sortedContexts.sort: threw, or the number it
\* returns (0 for the undefined it returns after console.warn). With a
\* property, s1 and s2 are what property.getValue returns without await: two
\* pending Promises.
sortCompare(options, c1, c2, h, st) ==
    LET promise == [k |-> "promise", s |-> "", l |-> <<>>]
        s1 == IF options.property # NULL THEN promise
              ELSE h[c1.variables][options.variable]
        s2 == IF options.property # NULL THEN promise
              ELSE h[c2.variables][options.variable]
        number(v) == CHOOSE n \in 0..(Len(UUIDOrder) * MaxContexts) : Num(n) = v
        bit(v) == IF v = Bool(TRUE) THEN 1 ELSE 0
    IN IF options.property # NULL
          /\ (c1.target = NULL \/ ~st[c1.target].exists \/ options.property # "color")
       THEN [threw |-> TRUE, result |-> 0]
       ELSE IF typeof(s1) # typeof(s2) THEN [threw |-> TRUE, result |-> 0]
       ELSE IF typeof(s1) = "number"
       THEN [threw |-> FALSE, result |-> number(s1) - number(s2)]
       ELSE IF typeof(s1) = "string"
       THEN [threw |-> FALSE, result |-> localeCompare(s1.s, s2.s)]
       ELSE IF typeof(s1) = "boolean"
       THEN [threw |-> FALSE, result |-> bit(s1) - bit(s2)]
       ELSE [threw |-> FALSE, result |-> 0]

RECURSIVE sortInsert(_, _, _, _, _, _)
\* Array.prototype.sort, one insertion: x moves in front of the elements the
\* comparator puts after it, and stays behind those it compares equal to.
\* Which of the two elements the engine passes first is its choice: swapped
\* is TRUE when it passes the later element as c1.
sortInsert(sorted, x, options, h, st, swapped) ==
    IF sorted = <<>> THEN [threw |-> FALSE, out |-> <<x>>]
    ELSE LET last == sorted[Len(sorted)]
             r == IF swapped THEN sortCompare(options, x, last, h, st)
                  ELSE sortCompare(options, last, x, h, st)
             after == IF swapped THEN r.result < 0 ELSE r.result > 0
         IN IF r.threw THEN [threw |-> TRUE, out |-> Append(sorted, x)]
            ELSE IF after
            THEN LET rest == sortInsert(SubSeq(sorted, 1, Len(sorted) - 1), x,
                                        options, h, st, swapped)
                 IN [threw |-> rest.threw, out |-> Append(rest.out, last)]
            ELSE [threw |-> FALSE, out |-> Append(sorted, x)]

RECURSIVE sortAll(_, _, _, _, _, _)
\* sortedContexts.sort(comparator): a stable sort of the copy.
sortAll(ctxs, sorted, options, h, st, swapped) ==
    IF ctxs = <<>> THEN [threw |-> FALSE, out |-> sorted]
    ELSE LET r == sortInsert(sorted, Head(ctxs), options, h, st, swapped)
         IN IF r.threw THEN r
            ELSE sortAll(Tail(ctxs), r.out, options, h, st, swapped)

\* SortAction.apply(contexts, actionArguments)
sortApply(ctxs, options, h, st, swapped) ==
    IF options.property = NULL /\ options.variable = NULL
    THEN [status |-> "Error", out |-> <<>>, heap |-> h, runs |-> <<>>]
    ELSE LET r == sortAll(ctxs, <<>>, options, h, st, swapped)
         IN [status |-> IF r.threw THEN "Error" ELSE "ok",
             out |-> r.out, heap |-> h, runs |-> <<>>]

VARIABLES
    store,             \* VarvEngine: uuid -> entity record
    heap,              \* sequence of variables maps; an address is an index
    contexts,          \* the chain's working context list
    action,            \* the constructed action
    outcome,           \* how the last apply ended
    lastRun,           \* the last apply: input list, heap before it, result, runs
    written,           \* a following action has written a variable
    triggeringEnabled, \* part_000:30
    registry,          \* EventSystem: registered callbacks, in registration order
    busLog,            \* EventSystem: event names sent with triggerEventAsync
    firings,           \* calls of Trigger.trigger
    rwt,               \* calls of Trigger.runWithoutTriggers
    chain,             \* the actions of the chain constructed so far
    effects,           \* the last apply: the store before it, its creations and deletions
    minted             \* number of uuids the store has handed out

editVars == <<chain, effects, minted>>
chainVars == <<store, heap, contexts, action, outcome, lastRun, written,
               chain, effects, minted>>
triggerVars == <<triggeringEnabled, registry, busLog, firings, rwt>>
vars == <<store, heap, contexts, action, outcome, lastRun, written,
          triggeringEnabled, registry, busLog, firings, rwt,
          chain, effects, minted>>


\* ---------------------------------------------------------------- inputs
\* Entity stores: Item A (red or blue) with friend B and friends [B, A, B];
\* Item B (blue), present or removed; no entity of concept Ghost.
InitStores ==
    { [u \in UUIDs |->
          IF u = "A" THEN Entity(TRUE, "Item", colA, "B", <<"B", "A", "B">>)
          ELSE IF u = "B" THEN Entity(hasB, "Item", "blue", "A", <<>>)
          ELSE Entity(FALSE, NULL, NULL, NULL, <<>>)]
      : colA \in {"red", "blue"}, hasB \in BOOLEAN }

\* The contexts a chain starts with: a target (or none) and the variable v.
InitContextKinds ==
    { [target |-> "A", v |-> "red"], [target |-> "B", v |-> "blue"],
      [target |-> NULL, v |-> "red"] }

InitContextLists ==
    UNION { [1..n -> InitContextKinds] : n \in 0..MaxContexts }

\* Every initial context owns its variables map.
heapOf(kinds) ==
    [i \in DOMAIN kinds |-> [EmptyVariables EXCEPT !["v"] = Str(kinds[i].v)]]
contextsOf(kinds) ==
    [i \in DOMAIN kinds |-> Context(kinds[i].target, NULL, i)]

NoFilter == FilterOptions(NoOperand, NoOperand, NULL, NULL, NULL, <<>>, <<>>, <<>>)
ColorIsRed == [NoFilter EXCEPT !.property = "color", !.equals = Lit("red")]
ColorIsV == [NoFilter EXCEPT !.property = "color", !.equals = Ref("v")]
SelIsRed == [NoFilter EXCEPT !.variable = "sel", !.equals = Lit("red")]
NotRed == [NoFilter EXCEPT !.not = <<ColorIsRed>>]
\* A leaf with two operator keys.
RedAndNotRed ==
    [NoFilter EXCEPT !.property = "color", !.equals = Lit("red"),
                     !.unequals = Lit("red")]

\* The where option of a select: a sequence of no or one filter option bag.
WhereParts == {<<>>, <<ColorIsRed>>, <<ColorIsV>>, <<SelIsRed>>, <<NoFilter>>, <<NotRed>>}

\* The filter of a where action; there the operand may refer to the variable v,
\* which every context of the list binds.
WhereFilters == {ColorIsRed, ColorIsV, SelIsRed, NoFilter, NotRed, RedAndNotRed}

SeedOptions ==
    { [concept |-> NULL, target |-> NoTarget, property |-> NULL],
      [concept |-> "Item", target |-> NoTarget, property |-> NULL],
      [concept |-> "Ghost", target |-> NoTarget, property |-> NULL],
      [concept |-> NULL, target |-> OneTarget("A"), property |-> NULL],
      [concept |-> NULL, target |-> ManyTargets(<<"A", "B">>), property |-> NULL],
      [concept |-> NULL, target |-> ManyTargets(<<"B", "A", "B">>), property |-> NULL],
      [concept |-> NULL, target |-> NoTarget, property |-> "friend"],
      [concept |-> NULL, target |-> NoTarget, property |-> "friends"],
      [concept |-> NULL, target |-> NoTarget, property |-> "color"],
      [concept |-> "Ghost", target |-> OneTarget("A"), property |-> "friends"],
      [concept |-> "Item", target |-> OneTarget("B"), property |-> NULL],
      [concept |-> "Item", target |-> NoTarget, property |-> "color"],
      [concept |-> NULL, target |-> OneTarget("A"), property |-> "color"] }

SelectConfigs ==
    { SelectOptions(sd.concept, sd.target, sd.property, as, fe, sie)
      : sd \in SeedOptions, as \in {NULL, "sel"}, fe \in BOOLEAN, sie \in BOOLEAN }

WhereConfigs ==
    { WhereOptions(f, sie) : f \in WhereFilters, sie \in BOOLEAN }

LimitConfigs ==
    { LimitOptions(c, l) : c \in {NoCount} \cup 0..(MaxContexts + 1), l \in BOOLEAN }

EvalConfigs ==
    { EvalOptions(f, as) : f \in {ColorIsRed, ColorIsV, SelIsRed, NoFilter, NotRed},
                           as \in {NULL, "v"} }

\* The options of a sort as configured: property and variable each given or
\* not, order "asc", "desc" or absent.
SortConfigs ==
    { [property |-> p, variable |-> v, order |-> o]
      : p \in {NULL, "color"}, v \in {NULL, "v"}, o \in {NULL, "asc", "desc"} }

\* Count and Exists have no stopIfEmpty option: the select they run never
\* stops the chain on an empty result.
CountConfigs ==
    { SelectOptions(sd.concept, sd.target, sd.property, as, fe, FALSE)
      : sd \in SeedOptions, as \in {NULL, "sel"}, fe \in BOOLEAN }

NoAction == [type |-> "none"]
NoRun == [input |-> <<>>, heap |-> <<>>, out |-> <<>>, runs |-> <<>>]
NoEffects == [before |-> <<>>, ops |-> <<>>]

\* ---------------------------------------------------------------- chain
\* new SelectAction(name, options, concept): the defaults are merged, the
\* where option is moved to wherePart, and the action is built.
SelectConstructor(options, wherePart) ==
    [type |-> "select", options |-> options, wherePart |-> wherePart]

\* new FilterAction(name, options, concept)
FilterConstructor(options) ==
    [type |-> "where", options |-> options, wherePart |-> <<>>]

\* new LimitAction(name, options, concept)
LimitConstructor(options) ==
    [type |-> "limit", options |-> options, wherePart |-> <<>>]

\* new EvalAction(name, options, concept)
EvalConstructor(options) ==
    [type |-> "eval", options |-> options, wherePart |-> <<>>]

ConstructSelect ==
    /\ action = NoAction
    /\ \E o \in SelectConfigs, w \in WhereParts : action' = SelectConstructor(o, w)
    /\ UNCHANGED <<store, heap, contexts, outcome, lastRun, written>>
    /\ UNCHANGED triggerVars
    /\ UNCHANGED editVars

ConstructWhere ==
    /\ action = NoAction
    /\ \E o \in WhereConfigs : action' = FilterConstructor(o)
    /\ UNCHANGED <<store, heap, contexts, outcome, lastRun, written>>
    /\ UNCHANGED triggerVars
    /\ UNCHANGED editVars

\* The chain harness calls action.apply(contexts) and hands the returned list
\* on; a throw ends the chain with the list as it was.
Finish(r) ==
    /\ outcome' = r.status
    /\ heap' = r.heap
    /\ contexts' = IF r.status = "ok" THEN r.out ELSE contexts
    /\ lastRun' = [input |-> contexts, heap |-> heap, out |-> r.out, runs |-> r.runs]
    /\ UNCHANGED <<store, action, written>>
    /\ UNCHANGED triggerVars
    /\ UNCHANGED editVars

ApplySelect ==
    /\ action.type = "select"
    /\ outcome = "none"
    /\ Finish(selectApply(contexts, action.options, action.wherePart, heap, store))

ApplyWhere ==
    /\ action.type = "where"
    /\ outcome = "none"
    /\ Finish(whereApply(contexts, action.options, heap, store))

ConstructLimit ==
    /\ action = NoAction
    /\ \E o \in LimitConfigs : action' = LimitConstructor(o)
    /\ UNCHANGED <<store, heap, contexts, outcome, lastRun, written>>
    /\ UNCHANGED triggerVars
    /\ UNCHANGED editVars

ConstructEval ==
    /\ action = NoAction
    /\ \E o \in EvalConfigs : action' = EvalConstructor(o)
    /\ UNCHANGED <<store, heap, contexts, outcome, lastRun, written>>
    /\ UNCHANGED triggerVars
    /\ UNCHANGED editVars

\* new CountAction(name, options, concept), new ExistsAction(name, options,
\* concept): the constructor of SelectAction, under the action's own name.
CountConstructor(kind, options, wherePart) ==
    [type |-> kind, options |-> options, wherePart |-> wherePart]

ConstructCount ==
    /\ action = NoAction
    /\ \E kind \in {"count", "exists"}, o \in CountConfigs, w \in WhereParts :
          action' = CountConstructor(kind, o, w)
    /\ UNCHANGED <<store, heap, contexts, outcome, lastRun, written>>
    /\ UNCHANGED triggerVars
    /\ UNCHANGED editVars

ApplyCount ==
    /\ action.type \in {"count", "exists"}
    /\ outcome = "none"
    /\ Finish(countApply(action.type, contexts, action.options, action.wherePart,
                         heap, store))

\* new SortAction(name, options, concept): a missing order becomes "asc".
SortConstructor(options) ==
    [type |-> "sort",
     options |-> [options EXCEPT !.order = IF @ = NULL THEN "asc" ELSE @],
     wherePart |-> <<>>]

ConstructSort ==
    /\ action = NoAction
    /\ \E o \in SortConfigs : action' = SortConstructor(o)
    /\ UNCHANGED <<store, heap, contexts, outcome, lastRun, written>>
    /\ UNCHANGED triggerVars
    /\ UNCHANGED editVars

ApplySort ==
    /\ action.type = "sort"
    /\ outcome = "none"
    /\ \E swapped \in BOOLEAN :
          Finish(sortApply(contexts, action.options, heap, store, swapped))

ApplyLimit ==
    /\ action.type = "limit"
    /\ outcome = "none"
    /\ Finish(limitApply(contexts, action.options, heap))

ApplyEval ==
    /\ action.type = "eval"
    /\ outcome = "none"
    /\ Finish(evalApply(contexts, action.options, heap, store))

\* A following per-item action writes a variable on the context at position i
\* of the list it was handed (as EvalAction.apply does with setVariable).
WriteVariable(i) ==
    /\ outcome = "ok"
    /\ ~written
    /\ i \in DOMAIN contexts
    /\ heap' = setVariable(heap, contexts[i], "v", Str("green"))
    /\ written' = TRUE
    /\ UNCHANGED <<store, contexts, action, outcome, lastRun>>
    /\ UNCHANGED triggerVars
    /\ UNCHANGED editVars

ChainInit ==
    /\ store \in InitStores
    /\ \E kinds \in InitContextLists :
          /\ heap = heapOf(kinds)
          /\ contexts = contextsOf(kinds)
    /\ action = NoAction
    /\ outcome = "none"
    /\ lastRun = NoRun
    /\ written = FALSE
    /\ triggeringEnabled = TRUE
    /\ registry = <<>>
    /\ busLog = <<>>
    /\ firings = <<>>
    /\ rwt = [t \in 1..MaxTasks |-> "idle"]
    /\ chain = <<>>
    /\ effects = NoEffects
    /\ minted = 0

ChainNext ==
    \/ ConstructSelect
    \/ ConstructWhere
    \/ ConstructLimit
    \/ ConstructEval
    \/ ConstructCount
    \/ ConstructSort
    \/ ApplySort
    \/ ApplySelect
    \/ ApplyCount
    \/ ApplyWhere
    \/ ApplyLimit
    \/ ApplyEval
    \/ \E i \in 1..Len(contexts) : WriteVariable(i)

ChainSpec == ChainInit /\ [][ChainNext]_vars

\* ---------------------------------------------------------------- edit chains
\* Chains of up to MaxSteps actions over select, storeSelection, new and
\* remove; each action is applied to the list the one before it returned.
StoreSelectionConstructor(options) ==
    [type |-> "storeSelection", options |-> options, wherePart |-> <<>>]

\* new NewAction(name, options, concept): select and forEach have defaults.
NewConstructor(options) ==
    [type |-> "new", options |-> options, wherePart |-> <<>>]

\* new RemoveAction(name, options, concept)
RemoveConstructor(options) ==
    [type |-> "remove", options |-> options, wherePart |-> <<>>]

EditActions ==
    { SelectConstructor(SelectOptions(NULL, OneTarget("A"), NULL, NULL, FALSE, FALSE), <<>>),
      SelectConstructor(SelectOptions("Item", NoTarget, NULL, NULL, FALSE, FALSE), <<>>) }
    \cup { StoreSelectionConstructor(StoreSelectionOptions(as)) : as \in {NULL, "sel"} }
    \cup { NewConstructor(NewOptions("Item", as, sel, fe))
             : as \in {NULL, "n"}, sel \in BOOLEAN, fe \in BOOLEAN }
    \cup { RemoveConstructor(RemoveOptions(t))
             : t \in {NoOperand, Lit("A"), Ref("n"), Ref("sel")} }

\* The next action of the chain is constructed.
ConstructNext ==
    /\ Len(chain) < MaxSteps
    /\ ~written
    /\ \/ action = NoAction
       \/ outcome = "ok"
    /\ \E a \in EditActions :
          /\ action' = a
          /\ chain' = Append(chain, a)
    /\ outcome' = "none"
    /\ UNCHANGED <<store, heap, contexts, lastRun, written, effects, minted>>
    /\ UNCHANGED triggerVars

\* The chain harness for the actions that change the store.
EditFinish(r) ==
    /\ outcome' = r.status
    /\ heap' = r.heap
    /\ contexts' = IF r.status = "ok" THEN r.out ELSE contexts
    /\ lastRun' = [input |-> contexts, heap |-> heap, out |-> r.out, runs |-> <<>>]
    /\ store' = r.store
    /\ effects' = [before |-> store, ops |-> r.ops]
    /\ minted' = r.minted
    /\ UNCHANGED <<action, written, chain>>
    /\ UNCHANGED triggerVars

ApplyStoreSelection ==
    /\ action.type = "storeSelection"
    /\ outcome = "none"
    /\ EditFinish(storeSelectionApply(contexts, action.options, heap, store, minted))

ApplyNew ==
    /\ action.type = "new"
    /\ outcome = "none"
    /\ minted + (IF action.options.forEach THEN Len(contexts) ELSE 1) <= MaxMinted
    /\ EditFinish(newApply(contexts, action.options, heap, store, minted))

ApplyRemove ==
    /\ action.type = "remove"
    /\ outcome = "none"
    /\ \E strict \in BOOLEAN :
          EditFinish(removeApply(contexts, action.options, heap, store, minted, strict))

\* A following action changes, in place, the list that the context at
\* position i holds in the variable storeSelection wrote (an Array push).
MutateList(i) ==
    /\ action.type = "storeSelection"
    /\ outcome = "ok"
    /\ ~written
    /\ i \in DOMAIN contexts
    /\ heap' = [a \in DOMAIN heap |-> [n \in VarNames |->
                  IF /\ heap[a][n].k = "list"
                     /\ heap[a][n].s =
                            heap[contexts[i].variables][
                                variableNameOf("storeSelection", action.options.as)].s
                  THEN [heap[a][n] EXCEPT !.l = Append(@, "Z")]
                  ELSE heap[a][n]]]
    /\ written' = TRUE
    /\ UNCHANGED <<store, contexts, action, outcome, lastRun>>
    /\ UNCHANGED triggerVars
    /\ UNCHANGED editVars

EditInit == ChainInit

EditNext ==
    \/ ConstructNext
    \/ ApplySelect
    \/ ApplyStoreSelection
    \/ ApplyNew
    \/ ApplyRemove
    \/ \E i \in 1..(MaxContexts + MaxMinted) : MutateList(i)

EditSpec == EditInit /\ [][EditNext]_vars


\* ---------------------------------------------------------------- dispatch
TriggerNames == {"a", "Cauldron.Open.FragmentEditor"}

\* The event the Inspector sends on the same bus (ContextActions.js:1166).
InspectorEventName == "Cauldron.Open.FragmentEditor"

\* The chains the registered callbacks start: a select of every Item, a
\* select of the red Items that stops the chain when there is none, and an
\* eval that writes the variable v of every context it was handed.
CallbackChains == {"selectAll", "selectRedOrStop", "evalRed"}

chainAction(c) ==
    IF c = "selectAll"
    THEN SelectConstructor(SelectOptions("Item", NoTarget, NULL, NULL, FALSE, FALSE), <<>>)
    ELSE IF c = "evalRed"
    THEN EvalConstructor(EvalOptions(ColorIsRed, "v"))
    ELSE SelectConstructor(SelectOptions("Item", NoTarget, NULL, NULL, FALSE, TRUE),
                           <<ColorIsRed>>)

\* What the model keeps of one call: who called, the trigger name, the value
\* of triggeringEnabled and the registrations at the call, the event sent to
\* the bus (NULL: none), the handlers the bus has to call and has called.
Firing(via, n, ev, targets) ==
    [via |-> via, name |-> n, enabled |-> triggeringEnabled, event |-> ev,
     regAtCall |-> Len(registry), targets |-> targets, invoked |-> <<>>,
     stopped |-> {},
     status |-> IF ev = NULL THEN "skipped"
                ELSE IF targets = <<>> THEN "returned" ELSE "dispatching"]

\* Trigger.registerTriggerEvent(triggerName, callback)
RegisterTriggerEvent(n, c) ==
    /\ Len(registry) < MaxCallbacks
    /\ registry' = Append(registry,
                          [event |-> registeredEventName(n), name |-> n, chain |-> c])
    /\ UNCHANGED <<triggeringEnabled, busLog, firings, rwt>>
    /\ UNCHANGED chainVars

\* Trigger.trigger(triggerName, context), up to the await of the event bus.
TriggerCall(n) ==
    /\ Len(firings) < MaxFirings
    /\ IF ~passesGate(triggeringEnabled)
       THEN /\ firings' = Append(firings, Firing("trigger", n, NULL, <<>>))
            /\ UNCHANGED busLog
       ELSE LET ev == triggeredEventName(n)
            IN /\ busLog' = Append(busLog, ev)
               /\ firings' = Append(firings,
                      Firing("trigger", n, ev, callbacksFor(registry, ev)))
    /\ UNCHANGED <<triggeringEnabled, registry, rwt>>
    /\ UNCHANGED chainVars

\* EventSystem.triggerEvent("Cauldron.Open.FragmentEditor", ...) of the
\* Inspector: traffic on the bus that is no trigger firing.
InspectorEvent ==
    /\ Len(firings) < MaxFirings
    /\ busLog' = Append(busLog, InspectorEventName)
    /\ firings' = Append(firings,
           Firing("bus", NULL, InspectorEventName,
                  callbacksFor(registry, InspectorEventName)))
    /\ UNCHANGED <<triggeringEnabled, registry, rwt>>
    /\ UNCHANGED chainVars

\* Variant: the callback is handed the event's own context list.
handlerContextsShared(h, ctxs) == [heap |-> h, ctxs |-> ctxs]

\* The handler's `let contexts = Action.clone(evt.detail)` (part_000:96).
handlerContexts(h, ctxs) == clone(h, ctxs)

\* The handler registerTriggerEvent wraps around callback: the event's context
\* list is cloned and the callback's chain runs on the clone; the handler has
\* no catch, it rejects with whatever the chain throws.
handlerRun(entry) ==
    LET cl == handlerContexts(heap, contexts)
        a == chainAction(entry.chain)
    IN IF a.type = "eval" THEN evalApply(cl.ctxs, a.options, cl.heap, store)
       ELSE selectApply(cl.ctxs, a.options, a.wherePart, cl.heap, store)

\* What a handler leaves behind: the variables maps that existed before it
\* ran, as it left them; the maps its clone added are garbage once it is over.
callerHeap(r) == SubSeq(r.heap, 1, Len(heap))

advance(f, idx, stops) ==
    [f EXCEPT !.invoked = Append(@, idx),
              !.stopped = IF stops THEN @ \cup {idx} ELSE @,
              !.status = IF Len(f.invoked) + 1 = Len(f.targets)
                         THEN "returned" ELSE "dispatching"]

\* The next handler the bus calls for firing f, as an index of the registry.
nextHandler(f) == f.targets[Len(f.invoked) + 1]

\* The bus calls the next handler of firing k and the handler resolves.
DeliverResolved(k) ==
    /\ k \in DOMAIN firings
    /\ firings[k].status = "dispatching"
    /\ \E idx \in {nextHandler(firings[k])} :
          \E r \in {handlerRun(registry[idx])} :
              /\ r.status = "ok"
              /\ heap' = callerHeap(r)
              /\ firings' = [firings EXCEPT ![k] = advance(@, idx, FALSE)]
    /\ UNCHANGED <<triggeringEnabled, registry, busLog, rwt>>
    /\ UNCHANGED <<store, contexts, action, outcome, lastRun, written>>
    /\ UNCHANGED editVars

\* The bus calls the next handler of firing k, the handler rejects, and the
\* rejection passes through the awaits of triggerEventAsync and of
\* Trigger.trigger, neither of which has a catch.
DeliverRejectedPropagates(k) ==
    /\ k \in DOMAIN firings
    /\ firings[k].status = "dispatching"
    /\ \E idx \in {nextHandler(firings[k])} :
          \E r \in {handlerRun(registry[idx])} :
              /\ r.status # "ok"
              /\ heap' = callerHeap(r)
              /\ firings' = [firings EXCEPT ![k] =
                     [@ EXCEPT !.invoked = Append(@, idx),
                               !.stopped = @ \cup {idx},
                               !.status = "rejected"]]
    /\ UNCHANGED <<triggeringEnabled, registry, busLog, rwt>>
    /\ UNCHANGED <<store, contexts, action, outcome, lastRun, written>>
    /\ UNCHANGED editVars

\* The same, on a bus that keeps a handler's rejection to itself and goes on
\* with the next handler.
DeliverRejectedContained(k) ==
    /\ k \in DOMAIN firings
    /\ firings[k].status = "dispatching"
    /\ \E idx \in {nextHandler(firings[k])} :
          \E r \in {handlerRun(registry[idx])} :
              /\ r.status # "ok"
              /\ heap' = callerHeap(r)
              /\ firings' = [firings EXCEPT ![k] = advance(@, idx, TRUE)]
    /\ UNCHANGED <<triggeringEnabled, registry, busLog, rwt>>
    /\ UNCHANGED <<store, contexts, action, outcome, lastRun, written>>
    /\ UNCHANGED editVars

\* Trigger.runWithoutTriggers(method), up to the await of method().
RunWithoutTriggersCall(t) ==
    /\ rwt[t] = "idle"
    /\ \A u \in 1..(t - 1) : rwt[u] # "idle"
    /\ triggeringEnabled' = FALSE
    /\ rwt' = [rwt EXCEPT ![t] = "running"]
    /\ UNCHANGED <<registry, busLog, firings>>
    /\ UNCHANGED chainVars

\* method() resolves: the statement after the await runs.
enabledAfterReturn(enabled) == TRUE
MethodReturns(t) ==
    /\ rwt[t] = "running"
    /\ triggeringEnabled' = enabledAfterReturn(triggeringEnabled)
    /\ rwt' = [rwt EXCEPT ![t] = "returned"]
    /\ UNCHANGED <<registry, busLog, firings>>
    /\ UNCHANGED chainVars

\* method() throws or rejects: the await throws, and runWithoutTriggers ends
\* without reaching the statement after it.
enabledAfterThrow(enabled) == enabled
MethodThrows(t) ==
    /\ rwt[t] = "running"
    /\ triggeringEnabled' = enabledAfterThrow(triggeringEnabled)
    /\ rwt' = [rwt EXCEPT ![t] = "rejected"]
    /\ UNCHANGED <<registry, busLog, firings>>
    /\ UNCHANGED chainVars

TriggerInit ==
    /\ store \in {st \in InitStores : st["B"].exists}
    /\ heap = heapOf(<<[target |-> "A", v |-> "red"]>>)
    /\ contexts = contextsOf(<<[target |-> "A", v |-> "red"]>>)
    /\ action = NoAction
    /\ outcome = "none"
    /\ lastRun = NoRun
    /\ written = FALSE
    /\ triggeringEnabled = TRUE
    /\ registry = <<>>
    /\ busLog = <<>>
    /\ firings = <<>>
    /\ rwt = [t \in 1..MaxTasks |-> "idle"]
    /\ chain = <<>>
    /\ effects = NoEffects
    /\ minted = 0

TriggerNext ==
    \/ \E n \in TriggerNames, c \in CallbackChains : RegisterTriggerEvent(n, c)
    \/ \E n \in TriggerNames : TriggerCall(n)
    \/ InspectorEvent
    \/ \E k \in 1..MaxFirings : DeliverResolved(k)
    \/ \E k \in 1..MaxFirings : DeliverRejectedPropagates(k)
    \/ \E k \in 1..MaxFirings : DeliverRejectedContained(k)
    \/ \E t \in 1..MaxTasks : RunWithoutTriggersCall(t)
    \/ \E t \in 1..MaxTasks : MethodReturns(t)
    \/ \E t \in 1..MaxTasks : MethodThrows(t)

TriggerSpec == TriggerInit /\ [][TriggerNext]_vars


\* ================================================================ claims
\* ---------------------------------------------------------------- C1
\* C1: every step that ends a call of runWithoutTriggers, whether method
\* returned or threw, leaves triggeringEnabled true.
C1_EnabledOnEveryExit ==
    [][\A t \in 1..MaxTasks :
          (rwt[t] = "running" /\ rwt'[t] \in {"returned", "rejected"})
              => triggeringEnabled']_vars

\* ---------------------------------------------------------------- C2
\* C2: a StopError raised by the chain of one callback ends only that chain:
\* Trigger.trigger is never rejected by it, and a firing that is over has
\* called every callback registered for its name.
C2_StopErrorEndsOnlyItsChain ==
    \A k \in DOMAIN firings :
        /\ firings[k].status # "rejected"
        /\ firings[k].status # "dispatching" => firings[k].invoked = firings[k].targets

\* ---------------------------------------------------------------- C3
RECURSIVE sentEvents(_)
\* The events the calls of fs sent to the bus, in call order.
sentEvents(fs) ==
    IF fs = <<>> THEN <<>>
    ELSE (IF Head(fs).event = NULL THEN <<>> ELSE <<Head(fs).event>>)
         \o sentEvents(Tail(fs))

\* C3: a call of Trigger.trigger(name) has the bus call a callback registered
\* with registerTriggerEvent(n, cb) if and only if triggering was enabled at
\* the call and n = name; a call made while triggering is disabled sends
\* nothing to the bus; traffic of the bus that is no trigger firing reaches
\* no such callback.
C3_DeliveredIffEnabledAndSameName ==
    /\ \A k \in DOMAIN firings :
          /\ \A i \in 1..firings[k].regAtCall :
                (i \in Range(firings[k].targets))
                    <=> /\ firings[k].via = "trigger"
                        /\ firings[k].enabled
                        /\ registry[i].name = firings[k].name
          /\ Range(firings[k].invoked) \subseteq Range(firings[k].targets)
          /\ firings[k].status = "returned" => firings[k].invoked = firings[k].targets
          /\ (firings[k].via = "trigger" /\ ~firings[k].enabled)
                => firings[k].event = NULL /\ firings[k].status = "skipped"
    /\ busLog = sentEvents(firings)

\* A callback was called for a firing made while triggering was enabled, and a
\* later call for the same name, made while triggering is disabled, was skipped.
C3_Witness ==
    \E k, j \in DOMAIN firings, i \in DOMAIN registry :
        /\ firings[k].enabled
        /\ i \in Range(firings[k].invoked)
        /\ firings[j].via = "trigger"
        /\ ~firings[j].enabled
        /\ firings[j].name = registry[i].name
        /\ i <= firings[j].regAtCall
        /\ firings[j].status = "skipped"


\* ---------------------------------------------------------------- C4
Applied == outcome # "none"

\* Every seed of every run of the last select was evaluated and rejected.
NoSeedAccepted ==
    \A j \in DOMAIN lastRun.runs : \A u \in Range(lastRun.runs[j].seeds) :
        whereVerdict(action.wherePart, u, lastRun.runs[j].vars, store) = "F"

\* C4: select and where end with StopError if and only if stopIfEmpty is true
\* and the result list is empty; with stopIfEmpty false an empty result is
\* handed on; a select over explicit targets that the where filter all rejects
\* ends with StopError, not with an Error.
C4_StopErrorIffStopIfEmptyAndEmptyResult ==
    (Applied /\ action.type \in {"select", "where"}) =>
        /\ (outcome = "StopError")
              <=> (action.options.stopIfEmpty /\ outcome # "Error" /\ lastRun.out = <<>>)
        /\ (outcome = "ok" /\ lastRun.out = <<>>)
              => (~action.options.stopIfEmpty /\ contexts = <<>>)
        /\ ( /\ action.type = "select"
             /\ action.options.concept = NULL
             /\ action.options.target.k # "null"
             /\ action.options.stopIfEmpty
             /\ NoSeedAccepted ) => outcome = "StopError"

\* Select{target: [A, B], where: {property: color, equals: red},
\* stopIfEmpty: true} ran on a non-empty list with neither A nor B red, and
\* ended with StopError.
C4_Witness ==
    /\ outcome = "StopError"
    /\ action.type = "select"
    /\ action.options.target = ManyTargets(<<"A", "B">>)
    /\ action.options.concept = NULL
    /\ action.wherePart = <<ColorIsRed>>
    /\ lastRun.input # <<>>
    /\ store["B"].exists

\* ---------------------------------------------------------------- C5
\* The filter of the where action, evaluated for context c on the heap the
\* action was applied to.
whereVerdictOf(c) ==
    filterEval(constructFilter(lookupVariables(action.options.filter,
                                               lastRun.heap[c.variables])),
               c.target, lastRun.heap[c.variables], store)

isRed(c) == c.target # NULL /\ store[c.target].exists /\ store[c.target].color = "red"

\* C5: where returns the input contexts whose filter evaluates to true, in
\* input order; a context whose filter cannot be built or throws is dropped,
\* and the action does not end with an Error.
C5_WhereKeepsExactlyTheMatches ==
    (action.type = "where" /\ Applied) =>
        /\ outcome # "Error"
        /\ lastRun.out = SeqFilter(lastRun.input,
               {c \in Range(lastRun.input) : whereVerdictOf(c) = "T"})
        /\ outcome = "ok" => contexts = lastRun.out
        /\ action.options.filter \in {NoFilter, SelIsRed} => lastRun.out = <<>>
        /\ action.options.filter = ColorIsRed =>
              lastRun.out = SeqFilter(lastRun.input,
                                      {c \in Range(lastRun.input) : isRed(c)})
        /\ action.options.filter = ColorIsV =>
              lastRun.out = SeqFilter(lastRun.input,
                  {c \in Range(lastRun.input) :
                      /\ c.target # NULL
                      /\ store[c.target].exists
                      /\ Str(store[c.target].color) = lastRun.heap[c.variables]["v"]})
        /\ action.options.filter = NotRed =>
              lastRun.out = SeqFilter(lastRun.input,
                  {c \in Range(lastRun.input) :
                      c.target # NULL /\ store[c.target].exists /\ ~isRed(c)})

\* where ran on two contexts: the filter threw for the first, accepted the
\* second, and the second was handed on.
C5_Witness ==
    /\ action.type = "where"
    /\ outcome = "ok"
    /\ Len(lastRun.input) = 2
    /\ whereVerdictOf(lastRun.input[1]) = "X"
    /\ whereVerdictOf(lastRun.input[2]) = "T"
    /\ contexts = <<lastRun.input[2]>>

\* ---------------------------------------------------------------- C6
\* C6: a run of doSelect throws only when seeding throws; a fault of the where
\* filter for one candidate rejects the candidate and is not propagated.
C6_FilterFaultRejectsCandidate ==
    (action.type = "select" /\ Applied) =>
        \A j \in DOMAIN lastRun.runs :
            lastRun.runs[j].threw => lastRun.runs[j].seedThrew

\* C6, the case of constructFilter returning null: with a where option that
\* has no operator, concept, or, and, not, the candidates are rejected and
\* the run of doSelect does not throw.
C6_NullFilterRejectsCandidate ==
    ( /\ action.type = "select"
      /\ Applied
      /\ action.wherePart # <<>>
      /\ ~lookupVariablesFails(action.wherePart[1], EmptyVariables)
      /\ constructFilter(lookupVariables(action.wherePart[1], EmptyVariables))
             = NullFilter ) =>
        \A j \in DOMAIN lastRun.runs :
            lastRun.runs[j].seeds # <<>> => ~lastRun.runs[j].threw

\* ---------------------------------------------------------------- C7
RECURSIVE totalAccepted(_)
totalAccepted(runs) ==
    IF runs = <<>> THEN 0 ELSE Len(Head(runs).accepted) + totalAccepted(Tail(runs))

Completed == outcome \in {"ok", "StopError"}

\* C7: each run of the selection gives one context per seed id that passes
\* the where filter (every seed id without where), in seed order, duplicates
\* kept, with that id as target and the other fields of the context the run
\* was made against; forEach mode makes one run per input context and
\* concatenates their outputs in input order, bulk mode makes one run.
C7_OneContextPerAcceptedSeed ==
    (action.type = "select" /\ Completed) =>
        /\ \A j \in DOMAIN lastRun.runs :
              /\ lastRun.runs[j].accepted =
                    SeqFilter(lastRun.runs[j].seeds,
                        {u \in Range(lastRun.runs[j].seeds) :
                            whereVerdict(action.wherePart, u, lastRun.runs[j].vars, store) = "T"})
              /\ action.wherePart = <<>> => lastRun.runs[j].accepted = lastRun.runs[j].seeds
              /\ lastRun.runs[j].first = 1 + totalAccepted(SubSeq(lastRun.runs, 1, j - 1))
              /\ \A i \in DOMAIN lastRun.runs[j].accepted :
                    lastRun.out[lastRun.runs[j].first + i - 1] =
                        [target |-> lastRun.runs[j].accepted[i],
                         lastTarget |-> lastRun.runs[j].context.lastTarget,
                         variables |-> lastRun.runs[j].context.variables]
        /\ Len(lastRun.out) = totalAccepted(lastRun.runs)
        /\ action.options.forEach =>
              /\ Len(lastRun.runs) = Len(lastRun.input)
              /\ \A j \in DOMAIN lastRun.runs : lastRun.runs[j].context = lastRun.input[j]
        /\ ~action.options.forEach => Len(lastRun.runs) = 1
        /\ ( /\ action.options.concept = "Item"
             /\ action.wherePart = <<ColorIsRed>>
             /\ ~action.options.forEach
             /\ store["A"].color = "red" )
              => [i \in DOMAIN lastRun.out |-> lastRun.out[i].target] = <<"A">>

\* Select{property: friends, where: {property: color, equals: red},
\* forEach: true} ran once per context of a two-context list whose second
\* target is A (friends [B, A, B], A red): the second run gave one context.
C7_Witness ==
    /\ action.type = "select"
    /\ outcome = "ok"
    /\ action.options.forEach
    /\ action.wherePart = <<ColorIsRed>>
    /\ Len(lastRun.runs) = 2
    /\ lastRun.runs[2].seeds = <<"B", "A", "B">>
    /\ lastRun.runs[2].accepted = <<"A">>
    /\ lastRun.runs[1].accepted # <<>>

\* ---------------------------------------------------------------- C8
\* The targets of the contexts run j put into the result.
targetsOfRun(j) ==
    [i \in DOMAIN lastRun.runs[j].accepted |->
        lastRun.out[lastRun.runs[j].first + i - 1].target]

\* C8: with the option as, the variable holds after a run the list of the
\* targets of the contexts that run gave, in order.
C8_AsHoldsTheAcceptedIds ==
    (action.type = "select" /\ Completed /\ action.options.as # NULL) =>
        \A j \in DOMAIN lastRun.runs :
            heap[lastRun.runs[j].context.variables][action.options.as]
                = List(targetsOfRun(j))

\* A select with as and where accepted some but not all of its seeds.
C8_Witness ==
    /\ action.type = "select"
    /\ outcome = "ok"
    /\ action.options.as = "sel"
    /\ \E j \in DOMAIN lastRun.runs :
          /\ lastRun.runs[j].accepted # <<>>
          /\ lastRun.runs[j].accepted # lastRun.runs[j].seeds
          /\ heap[lastRun.runs[j].context.variables]["sel"] = List(lastRun.runs[j].accepted)

\* ---------------------------------------------------------------- C9
\* C9: writing a variable on one context of the list select returned leaves
\* the variable as read from every other context of the list unchanged.
C9_WriteStaysOnItsContext ==
    [][\A i \in DOMAIN contexts :
          (action.type = "select" /\ WriteVariable(i))
              => \A j \in DOMAIN contexts \ {i} :
                    heap'[contexts[j].variables]["v"] = heap[contexts[j].variables]["v"]]_vars

\* ---------------------------------------------------------------- C10
\* C10: a select action exists only with one of concept, target and property:
\* the constructor rejects a configuration that has none of them.
C10_ConstructorRejectsSelectWithoutMode ==
    action.type = "select" =>
        \/ action.options.concept # NULL
        \/ action.options.target.k # "null"
        \/ action.options.property # NULL

\* ---------------------------------------------------------------- C11
Min(a, b) == IF a <= b THEN a ELSE b

\* C11: limit with a count returns the first min(count, |input|) contexts of
\* the input list, or with last the last min(count, |input|) of them, in input
\* order; count 0 gives the empty list.
C11_LimitKeepsPrefixOrSuffix ==
    (action.type = "limit" /\ Applied /\ action.options.count # NoCount) =>
        /\ outcome = "ok"
        /\ contexts = lastRun.out
        /\ Len(lastRun.out) = Min(action.options.count, Len(lastRun.input))
        /\ action.options.count = 0 => lastRun.out = <<>>
        /\ lastRun.out =
              IF action.options.last
              THEN SubSeq(lastRun.input,
                          Len(lastRun.input) - Len(lastRun.out) + 1,
                          Len(lastRun.input))
              ELSE SubSeq(lastRun.input, 1, Len(lastRun.out))

\* limit with count 1 and last kept the second of two different contexts.
C11_Witness ==
    /\ action.type = "limit"
    /\ outcome = "ok"
    /\ action.options.count = 1
    /\ action.options.last
    /\ Len(lastRun.input) = 2
    /\ lastRun.input[1] # lastRun.input[2]
    /\ contexts = <<lastRun.input[2]>>

\* ---------------------------------------------------------------- C12
\* C12: limit without the count option ends with an Error, whatever the
\* input list is.
C12_LimitWithoutCountFails ==
    (action.type = "limit" /\ Applied /\ action.options.count = NoCount) =>
        outcome = "Error"

\* ---------------------------------------------------------------- C13
\* The first operator key, in the order of FilterOps, that the options hold.
firstOperator(options) ==
    FilterOps[CHOOSE i \in DOMAIN FilterOps :
                 /\ options[FilterOps[i]] # Undef
                 /\ \A j \in 1..(i - 1) : options[FilterOps[j]] = Undef]

operatorCount(options) ==
    Cardinality({i \in DOMAIN FilterOps : options[FilterOps[i]] # Undef})

\* C13: for a leaf with more than one operator key, constructFilter builds the
\* leaf with the first of them and its value, and where does not fail.
C13_FirstOperatorWins ==
    ( /\ action.type = "where"
      /\ Applied
      /\ operatorCount(lookupVariables(action.options.filter, EmptyVariables)) > 1 ) =>
        /\ outcome # "Error"
        /\ constructFilter(lookupVariables(action.options.filter, EmptyVariables)).op
              = firstOperator(lookupVariables(action.options.filter, EmptyVariables))
        /\ constructFilter(lookupVariables(action.options.filter, EmptyVariables)).value
              = lookupVariables(action.options.filter, EmptyVariables)[
                    firstOperator(lookupVariables(action.options.filter, EmptyVariables))]

\* ---------------------------------------------------------------- C14
\* C14: eval with options for which constructFilter returns null writes false
\* into its variable on every context and returns all contexts.
C14_EvalNullFilterWritesFalse ==
    ( /\ action.type = "eval"
      /\ Applied
      /\ constructFilter(rawOptions(action.options.filter)) = NullFilter ) =>
        /\ outcome = "ok"
        /\ contexts = lastRun.input
        /\ \A i \in DOMAIN lastRun.input :
              heap[lastRun.input[i].variables][variableNameOf("eval", action.options.as)]
                  = Bool(FALSE)

\* ---------------------------------------------------------------- C15
RECURSIVE nonNullTargets(_)
\* The targets of a context list that are not null, in list order.
nonNullTargets(ctxs) ==
    IF ctxs = <<>> THEN <<>>
    ELSE IF Head(ctxs).target = NULL THEN nonNullTargets(Tail(ctxs))
    ELSE <<Head(ctxs).target>> \o nonNullTargets(Tail(ctxs))

\* The value the context at position i reads from the variable the last
\* storeSelection wrote.
storedList(h, i) ==
    h[contexts[i].variables][variableNameOf("storeSelection", action.options.as)]

\* C15: after storeSelection the returned list is the input list, and every
\* context reads from the variable the list of the non-null input targets, in
\* input order with duplicates; after Select{target: "A"} that list is ["A"].
C15_StoreSelectionHoldsTheTargets ==
    (action.type = "storeSelection" /\ Applied /\ ~written) =>
        /\ outcome = "ok"
        /\ lastRun.out = lastRun.input
        /\ contexts = lastRun.input
        /\ \A i \in DOMAIN contexts :
              /\ storedList(heap, i).k = "list"
              /\ storedList(heap, i).l = nonNullTargets(lastRun.input)
        /\ ( /\ Len(chain) = 2
             /\ chain[1].type = "select"
             /\ chain[1].options.target = OneTarget("A") ) =>
                /\ Len(contexts) = 1
                /\ storedList(heap, 1).l = <<"A">>

\* Select{target: "A"} then StoreSelection{as: "sel"}: sel is ["A"].
C15_Witness ==
    /\ Len(chain) = 2
    /\ chain[1].type = "select"
    /\ chain[1].options.target = OneTarget("A")
    /\ action = StoreSelectionConstructor(StoreSelectionOptions("sel"))
    /\ outcome = "ok"
    /\ ~written
    /\ Len(contexts) = 1
    /\ heap[contexts[1].variables]["sel"].l = <<"A">>

\* ---------------------------------------------------------------- C16
\* C16: after storeSelection, changing the list one context holds leaves the
\* list read from every other context of the list unchanged.
C16_StoredListsAreIndependent ==
    [][\A i \in 1..(MaxContexts + MaxMinted) :
          MutateList(i) =>
              \A j \in DOMAIN contexts \ {i} :
                  storedList(heap', j) = storedList(heap, j)]_vars

\* ---------------------------------------------------------------- C17
\* C17: new creates one entity in bulk mode and one per input context with
\* forEach, nothing else in the store changes, and with forEach the context
\* at each position reads the entity created for it from the variable.
C17_NewCreatesOnePerMode ==
    (action.type = "new" /\ Applied) =>
        /\ outcome = "ok"
        /\ Len(effects.ops) =
              IF action.options.forEach THEN Len(lastRun.input) ELSE 1
        /\ \A k \in DOMAIN effects.ops :
              /\ effects.ops[k].op = "create"
              /\ ~effects.before[effects.ops[k].id].exists
              /\ store[effects.ops[k].id].exists
              /\ \A m \in DOMAIN effects.ops :
                    m # k => effects.ops[m].id # effects.ops[k].id
        /\ \A u \in UUIDs :
              u \notin {effects.ops[k].id : k \in DOMAIN effects.ops} =>
                  store[u] = effects.before[u]
        /\ Len(contexts) = Len(effects.ops)
        /\ \A i \in DOMAIN contexts :
              heap[contexts[i].variables][variableNameOf("new", action.options.as)]
                  = Str(effects.ops[i].id)

\* ---------------------------------------------------------------- C18
\* C18: every context new returns reads the new id from the variable; with
\* select its target is the new id; without select it keeps the target of its
\* input context (with forEach) or the target all input contexts share (bulk).
C18_NewBindsAndSelects ==
    (action.type = "new" /\ outcome = "ok") =>
        \A i \in DOMAIN contexts :
            /\ heap[contexts[i].variables][variableNameOf("new", action.options.as)]
                  = Str(effects.ops[i].id)
            /\ action.options.select => contexts[i].target = effects.ops[i].id
            /\ (~action.options.select /\ action.options.forEach) =>
                  contexts[i].target = lastRun.input[i].target
            /\ ( /\ ~action.options.select
                 /\ ~action.options.forEach
                 /\ lastRun.input # <<>>
                 /\ \A j \in DOMAIN lastRun.input :
                       lastRun.input[j].target = lastRun.input[1].target ) =>
                  contexts[i].target = lastRun.input[1].target

\* ---------------------------------------------------------------- C19
\* The ids remove resolves for context c: options.target, else c.target.
resolvedIds(c) ==
    IF action.options.target.kind = "none" THEN <<c.target>>
    ELSE IF action.options.target.kind = "lit" THEN <<action.options.target.s>>
    ELSE IF lastRun.heap[c.variables][action.options.target.s].k = "list"
         THEN lastRun.heap[c.variables][action.options.target.s].l
         ELSE <<lastRun.heap[c.variables][action.options.target.s].s>>

NewThenRemoveIt ==
    /\ Len(chain) = 2
    /\ chain[1].type = "new"
    /\ chain[1].options.as # NULL
    /\ action.type = "remove"
    /\ action.options.target = Ref(chain[1].options.as)

\* C19: when remove completes it returns the empty list and no id it resolved
\* is in the store; New{as: n} then Remove{target: $n} completes, leaves no
\* created entity in the store and hands no context on.
C19_RemoveLeavesNoContextAndNoEntity ==
    /\ (action.type = "remove" /\ outcome = "ok") =>
          /\ lastRun.out = <<>>
          /\ contexts = <<>>
          /\ \A i \in DOMAIN lastRun.input :
                \A u \in Range(resolvedIds(lastRun.input[i])) : ~store[u].exists
    /\ (NewThenRemoveIt /\ Applied) =>
          /\ outcome = "ok"
          /\ contexts = <<>>
          /\ \A k \in 1..minted : ~store[FreshIds[k]].exists

\* New{as: n} then Remove{target: $n} created and removed an entity.
C19_Witness ==
    /\ NewThenRemoveIt
    /\ outcome = "ok"
    /\ minted >= 1
    /\ effects.before[FreshIds[1]].exists
    /\ ~store[FreshIds[1]].exists
    /\ contexts = <<>>

\* ---------------------------------------------------------------- C20
deletedIds == {effects.ops[k].id : k \in DOMAIN effects.ops}

\* The position of the first input context without target.
firstNull == CHOOSE k \in DOMAIN lastRun.input :
                 /\ lastRun.input[k].target = NULL
                 /\ \A i \in 1..(k - 1) : lastRun.input[i].target # NULL

\* C20: when remove fails, the deletions made for the contexts before the
\* failing one stay in the store, nothing is deleted for the contexts after
\* it, the entities an earlier new created stay, and the chain ends with the
\* Error.
C20_NoRollbackOnFailure ==
    (action.type = "remove" /\ outcome = "Error") =>
        /\ \A u \in UUIDs :
              store[u].exists = (effects.before[u].exists /\ u \notin deletedIds)
        /\ contexts = lastRun.input
        /\ ( /\ action.options.target = NoOperand
             /\ \E k \in DOMAIN lastRun.input : lastRun.input[k].target = NULL
             /\ \A i \in 1..(firstNull - 1) :
                   /\ effects.before[lastRun.input[i].target].exists
                   /\ \A j \in 1..(i - 1) :
                         lastRun.input[j].target # lastRun.input[i].target ) =>
                /\ effects.ops = [i \in 1..(firstNull - 1) |->
                                     [op |-> "delete", id |-> lastRun.input[i].target]]
                /\ \A i \in DOMAIN lastRun.input :
                      ( /\ i > firstNull
                        /\ lastRun.input[i].target # NULL
                        /\ \A j \in 1..(firstNull - 1) :
                              lastRun.input[j].target # lastRun.input[i].target ) =>
                          store[lastRun.input[i].target].exists
                              = effects.before[lastRun.input[i].target].exists
        /\ (Len(chain) = 2 /\ chain[1].type = "new") =>
              \A k \in 1..minted :
                  store[FreshIds[k]].exists \/ FreshIds[k] \in deletedIds

\* remove deleted the target of the first context and failed on the second,
\* which has no target.
C20_Witness ==
    /\ action.type = "remove"
    /\ outcome = "Error"
    /\ action.options.target = NoOperand
    /\ Len(lastRun.input) = 2
    /\ lastRun.input[2].target = NULL
    /\ effects.ops = <<[op |-> "delete", id |-> lastRun.input[1].target]>>
    /\ effects.before[lastRun.input[1].target].exists
    /\ ~store[lastRun.input[1].target].exists

\* ---------------------------------------------------------------- C28
\* C28: while the method of at least one call of runWithoutTriggers has
\* started and not finished, triggeringEnabled is false.
C28_DisabledWhileAnyMethodRuns ==
    (\E t \in 1..MaxTasks : rwt[t] = "running") => ~triggeringEnabled

\* ---------------------------------------------------------------- C29
\* C29: a call of Trigger.trigger made while triggering is disabled sends
\* nothing to the bus and is never delivered later: its record stays skipped,
\* with no callback called, whatever happens afterwards.
C29_SkippedCallIsDropped ==
    [][\A k \in DOMAIN firings :
          (firings[k].via = "trigger" /\ ~firings[k].enabled) =>
              /\ firings[k].status = "skipped"
              /\ firings[k].event = NULL
              /\ firings[k].invoked = <<>>
              /\ firings'[k] = firings[k]
              /\ Len(busLog) = Cardinality({j \in DOMAIN firings :
                                               firings[j].event # NULL})]_vars

\* A call was skipped while triggering was disabled; triggering is enabled
\* again and a later call of the same name was delivered to a callback that
\* was registered before the skipped call.
C29_Witness ==
    /\ Len(firings) = 2
    /\ firings[1].via = "trigger"
    /\ ~firings[1].enabled
    /\ firings[1].regAtCall >= 1
    /\ registry[1].name = firings[1].name
    /\ triggeringEnabled
    /\ firings[2].name = firings[1].name
    /\ firings[2].invoked # <<>>
    /\ firings[1].invoked = <<>>

resultVariable == variableNameOf(action.type, action.options.as)

\* C21: for the same select criteria, store and input list, Exists ends as
\* Count ends, and on every context the value Exists writes is
\* (the value Count writes > 0).
C21_ExistsIsCountAboveZero ==
    (action.type = "count" /\ Applied) =>
        \E e \in {countApply("exists", lastRun.input, action.options,
                             action.wherePart, lastRun.heap, store)} :
            /\ e.status = outcome
            /\ outcome = "ok" =>
                  \A i \in DOMAIN lastRun.input :
                      \E n \in 0..(Len(UUIDOrder) * MaxContexts) :
                          /\ heap[lastRun.input[i].variables][resultVariable] = Num(n)
                          /\ e.heap[lastRun.input[i].variables]
                                    [variableNameOf("exists", action.options.as)]
                                = Bool(n > 0)

\* A count in forEach mode that found nothing for one context and something
\* for another.
C21_Witness ==
    /\ action.type = "count"
    /\ outcome = "ok"
    /\ action.options.forEach
    /\ Len(contexts) = 2
    /\ heap[contexts[1].variables][resultVariable] = Num(0)
    /\ heap[contexts[2].variables][resultVariable] \notin {Num(0), Undef}

\* ---------------------------------------------------------------- C22
\* C22: a count or exists that completes returns the input contexts, same
\* number, order and targets; on their variables only the result variable
\* differs from before, and it holds a number (count) or a boolean (exists),
\* also when the select on the clones has bound the as variable to its ids.
C22_CountChangesOnlyItsVariable ==
    (action.type \in {"count", "exists"} /\ outcome = "ok" /\ ~written) =>
        /\ contexts = lastRun.input
        /\ \A i \in DOMAIN contexts :
              /\ \A n \in VarNames \ {resultVariable} :
                    heap[contexts[i].variables][n] =
                        lastRun.heap[contexts[i].variables][n]
              /\ heap[contexts[i].variables][resultVariable].k =
                    IF action.type = "count" THEN "num" ELSE "bool"

\* A count with as in forEach mode whose select has bound as to ids on a
\* clone, while the input contexts hold numbers.
C22_Witness ==
    /\ action.type = "count"
    /\ outcome = "ok"
    /\ action.options.as = "sel"
    /\ action.options.forEach
    /\ Len(contexts) = 2
    /\ \E a \in DOMAIN heap : heap[a]["sel"].k \in {"str", "list"}
    /\ \A i \in DOMAIN contexts : heap[contexts[i].variables]["sel"].k = "num"

\* ---------------------------------------------------------------- C23
\* The value the variable the sort is by holds on context c.
sortValue(c) == heap[c.variables][action.options.variable]

\* out holds the contexts of the input, each as often as the input does.
isPermutation(out, input) ==
    /\ Len(out) = Len(input)
    /\ \A c \in Range(input) \cup Range(out) :
          Cardinality({i \in DOMAIN out : out[i] = c}) =
              Cardinality({i \in DOMAIN input : input[i] = c})

\* C23: a sort by a variable that holds strings on every context returns a
\* permutation of the input, non-decreasing by the value when order is "asc"
\* or absent and non-increasing when it is "desc".
C23_SortByVariableFollowsOrder ==
    (/\ action.type = "sort"
     /\ action.options.variable # NULL
     /\ action.options.property = NULL
     /\ Applied /\ ~written) =>
        /\ outcome = "ok"
        /\ isPermutation(contexts, lastRun.input)
        /\ \A i, j \in DOMAIN contexts :
              i < j => IF action.options.order = "desc"
                       THEN localeCompare(sortValue(contexts[i]).s,
                                          sortValue(contexts[j]).s) >= 0
                       ELSE localeCompare(sortValue(contexts[i]).s,
                                          sortValue(contexts[j]).s) <= 0

\* ---------------------------------------------------------------- C24
\* C24: a sort by property color over contexts whose targets are existing
\* Items returns them ordered by the color the store holds for each target.
C24_SortByPropertyFollowsTheStore ==
    (/\ action.type = "sort"
     /\ action.options.property # NULL
     /\ action.options.variable = NULL
     /\ Applied
     /\ \A i \in DOMAIN lastRun.input :
           /\ lastRun.input[i].target # NULL
           /\ store[lastRun.input[i].target].exists) =>
        /\ outcome = "ok"
        /\ isPermutation(contexts, lastRun.input)
        /\ \A i, j \in DOMAIN contexts :
              i < j => localeCompare(store[contexts[i].target].color,
                                     store[contexts[j].target].color) <= 0

\* ---------------------------------------------------------------- C25
\* C25: apply of a sort fails when neither property nor variable is given,
\* and when both are given.
C25_SortNeedsExactlyOneKey ==
    (action.type = "sort" /\ Applied) =>
        (((action.options.property = NULL) = (action.options.variable = NULL))
            => outcome = "Error")

\* ---------------------------------------------------------------- C26
RECURSIVE idsInOrder(_)
\* The ids remove resolves for the contexts of ctxs, context after context,
\* each context's ids in the order of its target list.
idsInOrder(ctxs) ==
    IF ctxs = <<>> THEN <<>>
    ELSE resolvedIds(Head(ctxs)) \o idsInOrder(Tail(ctxs))

firstAt(q, u) == CHOOSE i \in DOMAIN q : q[i] = u /\ \A j \in 1..(i - 1) : q[j] # u

\* The places in the log of the store calls that deleted an entity.
deletions == {k \in DOMAIN effects.ops : effects.ops[k].op = "delete"}

C27_EvalComparesByTheBoundValue ==
    (action.type = "eval" /\ Applied /\ ~written
        /\ \A i \in DOMAIN lastRun.input :
              /\ ~lookupVariablesFails(action.options.filter,
                                       lastRun.heap[lastRun.input[i].variables])
              /\ whereKeeps(action.options, lastRun.input[i], lastRun.heap, store)
                    \/ ~whereKeepsOnThrow(action.options, lastRun.input[i],
                                          lastRun.heap, store)) =>
        /\ outcome = "ok"
        /\ contexts = lastRun.input
        /\ \A i \in DOMAIN contexts :
              heap[contexts[i].variables]
                  [variableNameOf("eval", action.options.as)]
                = Bool(whereKeeps(action.options, contexts[i], lastRun.heap, store))

\* ---------------------------------------------------------------- C31
\* The number of concept, target and property the select was configured with.
seedOptionCount ==
    (IF action.options.concept # NULL THEN 1 ELSE 0)
    + (IF action.options.target.k # "null" THEN 1 ELSE 0)
    + (IF action.options.property # NULL THEN 1 ELSE 0)

\* C31: a select configured with more than one of concept, target and
\* property seeds every run from concept when it is given, else from target;
\* what the other options would select is not looked at, and seeding raises
\* no error.
C31_SeedModeByPriority ==
    (action.type = "select" /\ Applied /\ seedOptionCount > 1) =>
        \A j \in DOMAIN lastRun.runs :
            /\ ~lastRun.runs[j].seedThrew
            /\ lastRun.runs[j].seeds =
                  IF action.options.concept # NULL
                  THEN SeqFilter(UUIDOrder,
                           {u \in UUIDs : store[u].exists
                               /\ store[u].concept = action.options.concept})
                  ELSE action.options.target.ids

\* A select with concept Item and target B took both Items as seeds.
C31_Witness ==
    /\ action.type = "select"
    /\ outcome = "ok"
    /\ action.options.concept = "Item"
    /\ action.options.target = OneTarget("B")
    /\ Len(lastRun.runs) = 1
    /\ lastRun.runs[1].seeds = <<"A", "B">>

\* ---------------------------------------------------------------- C32
targetsOf(ctxs) == [i \in DOMAIN ctxs |-> ctxs[i].target]

requestedIds == [k \in DOMAIN effects.ops |-> effects.ops[k].id]

====
